---- MODULE Spec2Model ----
(***************************************************************************)
(* Golf stat tracker (src/app.py): the Shot / Hole / Round data model, its *)
(* derived statistics, and the stepwise entry script that Streamlit        *)
(* re-executes on every interaction.  One action is one execution of the   *)
(* script with the widget values the actor has set.                        *)
(***************************************************************************)
EXTENDS Integers, Sequences, FiniteSets, TLC

VARIABLES
    player,             \* st.session_state["player"], the text_input's value
    course,             \* st.session_state["course"], the text_input's value
    round,              \* st.session_state.round
    current_hole,       \* st.session_state.current_hole
    current_shot,       \* st.session_state.current_shot
    current_hole_obj,   \* st.session_state.current_hole_obj
    shot,               \* a Shot under classification (classification runs only)
    queried_hole,       \* a Hole under query (Hole query runs only)
    answer              \* the value the last query returned

vars == <<player, course, round, current_hole, current_shot, current_hole_obj,
          shot, queried_hole, answer>>

session == <<player, course, round, current_hole, current_shot, current_hole_obj>>

----------------------------------------------------------------------------
(* Bounds of the model *)

\* the Round is queried once it holds at most MaxStatStrokes shots
MaxStatStrokes == 3
\* StartHole is explored while current_hole <= MaxHoles
MaxHoles == 4
\* Add Shot is explored while the hole in progress has fewer than MaxShots shots
MaxShots == 3
\* Add Shot is explored while fewer than MaxStrokes shots exist in the session
MaxStrokes == 4

\* values typed into the two text inputs
Names == {"", "Ann"}
\* values chosen in "Holes Played" (widget range 1..18)
HolesPlayedChoices == {1, 3}
\* values chosen in "Course Par" (widget range 9..72)
CourseParChoices == {72}
\* values chosen in "Hole n Yardage" (widget range 50..800)
Yardages == {400}
\* values typed into "Shot distance (yards)" (widget range 0.0 and up)
Distances == {150}
\* values typed into "Distance from hole (ft)" (widget range 0.0 and up)
DistancesToHole == {20}
\* distances of the Shots handed to the classification queries
ShotDistances == {0, 100, 101}

----------------------------------------------------------------------------
(* Python values *)

\* Python's None, for the object-valued session entries
None == [none |-> TRUE]

\* Python's None, for Optional[float] fields (every real distance is >= 0)
Absent == -1

\* the characters of the string literals of the program
Text(s) ==
    CASE s = "tee" -> <<"t", "e", "e">>
      [] s = "fairway" -> <<"f", "a", "i", "r", "w", "a", "y">>
      [] s = "green" -> <<"g", "r", "e", "e", "n">>
      [] s = "hole" -> <<"h", "o", "l", "e">>
      [] s = "rough" -> <<"r", "o", "u", "g", "h">>
      [] s = "bunker" -> <<"b", "u", "n", "k", "e", "r">>
      [] s = "water" -> <<"w", "a", "t", "e", "r">>
      [] s = "left rough" -> <<"l", "e", "f", "t", " ", "r", "o", "u", "g", "h">>
      [] s = "right rough" -> <<"r", "i", "g", "h", "t", " ", "r", "o", "u", "g", "h">>
      [] s = "short rough" -> <<"s", "h", "o", "r", "t", " ", "r", "o", "u", "g", "h">>
      [] s = "long rough" -> <<"l", "o", "n", "g", " ", "r", "o", "u", "g", "h">>
      [] s = "left bunker" -> <<"l", "e", "f", "t", " ", "b", "u", "n", "k", "e", "r">>
      [] s = "right bunker" -> <<"r", "i", "g", "h", "t", " ", "b", "u", "n", "k", "e", "r">>
      [] s = "fairway bunker" -> <<"f", "a", "i", "r", "w", "a", "y", " ", "b", "u", "n", "k", "e", "r">>
      [] s = "left water" -> <<"l", "e", "f", "t", " ", "w", "a", "t", "e", "r">>
      [] s = "right water" -> <<"r", "i", "g", "h", "t", " ", "w", "a", "t", "e", "r">>
      [] s = "long water" -> <<"l", "o", "n", "g", " ", "w", "a", "t", "e", "r">>
      [] s = "left" -> <<"l", "e", "f", "t">>
      [] s = "right" -> <<"r", "i", "g", "h", "t">>
      [] s = "short" -> <<"s", "h", "o", "r", "t">>
      [] s = "long" -> <<"l", "o", "n", "g">>

\* Python's `d in s` on two strings: d occurs in s as a contiguous substring
StrIn(d, s) ==
    \E i \in 0..(Len(Text(s)) - Len(Text(d))) :
        SubSeq(Text(s), i + 1, i + Len(Text(d))) = Text(d)

\* Python's None, where a method returns a string or None
NoResult == "None"

\* Python's truth value of an Optional[float]: None and 0.0 are false
Truthy(x) == x # Absent /\ x # 0

----------------------------------------------------------------------------
(* Data model *)

\* Shot(shot_number, distance, start_lie, end_lie, distance_to_hole)
Shot(shot_number, distance, start_lie, end_lie, distance_to_hole) ==
    [shot_number |-> shot_number, distance |-> distance, start_lie |-> start_lie,
     end_lie |-> end_lie, distance_to_hole |-> distance_to_hole]

\* is_putt() looking at where the shot ended
is_putt_ByEndLie(s) == s.end_lie = "green"

is_putt(s) == s.start_lie = "green"

\* category() with the threshold compared by >= instead of >
category_AtLeast100(s) ==
    IF is_putt(s) THEN "putting"
    ELSE IF s.shot_number = 1 THEN "tee"
    ELSE IF Truthy(s.distance) /\ s.distance >= 100 THEN "approach"
    ELSE "short_game"

category(s) ==
    IF is_putt(s) THEN "putting"
    ELSE IF s.shot_number = 1 THEN "tee"
    ELSE IF Truthy(s.distance) /\ s.distance > 100 THEN "approach"
    ELSE "short_game"

\* the list the loop of direction() walks
DirectionKeywords == <<"left", "right", "short", "long">>

RECURSIVE DirectionLoop(_, _)
\* the for loop of direction() over the keywords ds still to try; "" when it
\* falls through
DirectionLoop(ds, e) ==
    IF ds = <<>> THEN ""
    ELSE IF StrIn(Head(ds), e) THEN Head(ds)
    ELSE DirectionLoop(Tail(ds), e)

\* direction() with the fairway/green fallback matched as a substring
direction_SubstringCenter(s) ==
    LET d == DirectionLoop(DirectionKeywords, s.end_lie) IN
    IF d # "" THEN d
    ELSE IF StrIn("fairway", s.end_lie) \/ StrIn("green", s.end_lie) THEN "center"
    ELSE IF s.end_lie = "hole" THEN "hole"
    ELSE "unknown"

direction(s) ==
    LET d == DirectionLoop(DirectionKeywords, s.end_lie) IN
    IF d # "" THEN d
    ELSE IF s.end_lie \in {"fairway", "green"} THEN "center"
    ELSE IF s.end_lie = "hole" THEN "hole"
    ELSE "unknown"

\* Hole(hole_number, par, yardage), shots defaulting to a fresh empty list
Hole(hole_number, par, yardage) ==
    [hole_number |-> hole_number, par |-> par, yardage |-> yardage, shots |-> <<>>]

\* Hole.strokes
strokes(h) == Len(h.shots)

\* Hole.putts: sum(s.is_putt() for s in self.shots)
RECURSIVE CountPutts(_)
CountPutts(shots) ==
    IF shots = <<>> THEN 0
    ELSE (IF is_putt(Head(shots)) THEN 1 ELSE 0) + CountPutts(Tail(shots))

putts(h) == CountPutts(h.shots)

\* fairway_result() without the par test
fairway_result_AnyPar(h) ==
    IF Len(h.shots) = 0 THEN NoResult ELSE direction(h.shots[1])

fairway_result(h) ==
    IF h.par < 4 \/ Len(h.shots) = 0 THEN NoResult ELSE direction(h.shots[1])

\* the loop of gir() from position i (0-based, as enumerate counts) on
RECURSIVE GirLoop(_, _)
GirLoop(h, i) ==
    IF i >= Len(h.shots) THEN FALSE
    ELSE IF h.shots[i + 1].end_lie = "green" THEN (i + 1) <= (h.par - 2)
    ELSE GirLoop(h, i + 1)

\* gir() comparing the 0-based position with par - 2
RECURSIVE GirLoop_ZeroBased(_, _)
GirLoop_ZeroBased(h, i) ==
    IF i >= Len(h.shots) THEN FALSE
    ELSE IF h.shots[i + 1].end_lie = "green" THEN i <= (h.par - 2)
    ELSE GirLoop_ZeroBased(h, i + 1)

gir_ZeroBased(h) == GirLoop_ZeroBased(h, 0)

gir(h) == GirLoop(h, 0)

\* Round(player_name, course_name, holes_played, course_par), holes defaulting
\* to a fresh empty list
Round(player_name, course_name, holes_played, course_par) ==
    [player_name |-> player_name, course_name |-> course_name,
     holes_played |-> holes_played, course_par |-> course_par, holes |-> <<>>]

\* sum(f(h) for h in holes), for the three sums of Round
RECURSIVE SumStrokesOf(_)
SumStrokesOf(holes) ==
    IF holes = <<>> THEN 0 ELSE strokes(Head(holes)) + SumStrokesOf(Tail(holes))

RECURSIVE SumPuttsOf(_)
SumPuttsOf(holes) ==
    IF holes = <<>> THEN 0 ELSE putts(Head(holes)) + SumPuttsOf(Tail(holes))

RECURSIVE SumGirOf(_)
SumGirOf(holes) ==
    IF holes = <<>> THEN 0
    ELSE (IF gir(Head(holes)) THEN 1 ELSE 0) + SumGirOf(Tail(holes))

\* total_score() counting the holes instead of their strokes
total_score_CountsHoles(r) == Len(r.holes)

total_score(r) == SumStrokesOf(r.holes)

score_vs_par(r) == total_score(r) - r.course_par

total_putts(r) == SumPuttsOf(r.holes)

\* pd.Series(xs).value_counts() as the table value -> number of occurrences in
\* xs (the order of the table's rows is not modelled)
value_counts(xs) ==
    [ v \in { xs[i] : i \in 1..Len(xs) } |->
        Cardinality({ i \in 1..Len(xs) : xs[i] = v }) ]

\* [h.fairway_result() for h in holes if h.fairway_result()]
RECURSIVE FairwayResults(_)
FairwayResults(holes) ==
    IF holes = <<>> THEN <<>>
    ELSE (IF fairway_result(Head(holes)) # NoResult
          THEN <<fairway_result(Head(holes))>> ELSE <<>>)
         \o FairwayResults(Tail(holes))

fairway_stats(r) == value_counts(FairwayResults(r.holes))

gir_stats(r) == <<SumGirOf(r.holes), Len(r.holes)>>

\* the inner loop of directional_bias() leaving out only "center"
RECURSIVE DirsOfShots_KeepsHole(_)
DirsOfShots_KeepsHole(shots) ==
    IF shots = <<>> THEN <<>>
    ELSE LET d == direction(Head(shots)) IN
         (IF d \notin {"center"} THEN <<d>> ELSE <<>>)
         \o DirsOfShots_KeepsHole(Tail(shots))

\* the inner loop of directional_bias() over the shots of one hole
RECURSIVE DirsOfShots(_)
DirsOfShots(shots) ==
    IF shots = <<>> THEN <<>>
    ELSE LET d == direction(Head(shots)) IN
         (IF d \notin {"center", "hole"} THEN <<d>> ELSE <<>>)
         \o DirsOfShots(Tail(shots))

\* the outer loop of directional_bias() over the holes
RECURSIVE DirsOfHoles(_)
DirsOfHoles(holes) ==
    IF holes = <<>> THEN <<>>
    ELSE DirsOfShots(Head(holes).shots) \o DirsOfHoles(Tail(holes))

directional_bias(r) == value_counts(DirsOfHoles(r.holes))

\* the inner loop of strokes_by_category() over the shots of one hole
RECURSIVE BucketShots(_, _)
BucketShots(buckets, shots) ==
    IF shots = <<>> THEN buckets
    ELSE BucketShots([buckets EXCEPT ![category(Head(shots))] = @ + 1], Tail(shots))

\* the outer loop of strokes_by_category() over the holes
RECURSIVE BucketHoles(_, _)
BucketHoles(buckets, holes) ==
    IF holes = <<>> THEN buckets
    ELSE BucketHoles(BucketShots(buckets, Head(holes).shots), Tail(holes))

strokes_by_category(r) ==
    BucketHoles([c \in {"tee", "approach", "short_game", "putting"} |-> 0], r.holes)

\* the rows to_dataframe() appends for the shots of hole h
RECURSIVE RowsOfShots(_, _, _)
RowsOfShots(r, h, shots) ==
    IF shots = <<>> THEN <<>>
    ELSE LET s == Head(shots) IN
         << <<r.player_name, r.course_name, h.hole_number, h.par, h.yardage,
              s.shot_number, s.distance, s.start_lie, s.end_lie,
              s.distance_to_hole, category(s), direction(s)>> >>
         \o RowsOfShots(r, h, Tail(shots))

RECURSIVE RowsOfHoles(_, _)
RowsOfHoles(r, holes) ==
    IF holes = <<>> THEN <<>>
    ELSE RowsOfShots(r, Head(holes), Head(holes).shots) \o RowsOfHoles(r, Tail(holes))

\* to_dataframe() as the list of its rows
to_dataframe(r) == RowsOfHoles(r, r.holes)

----------------------------------------------------------------------------
(* Widgets of the entry script *)

\* number_input("Holes Played", min_value=1, max_value=18)
HolesPlayedRange == 1..18
\* number_input("Course Par", min_value=9, max_value=72)
CourseParRange == 9..72
\* number_input("Hole n Par", min_value=3, max_value=5)
ParRange == 3..5
\* number_input("Hole n Yardage", min_value=50, max_value=800)
YardageRange == 50..800

\* selectbox "Where did the ball go?"
LieOptions == {"fairway", "rough", "bunker", "water", "green", "hole"}
\* selectbox "Which rough?"
RoughOptions == {"left rough", "right rough", "short rough", "long rough"}
\* selectbox "Which bunker?"
BunkerOptions == {"left bunker", "right bunker", "fairway bunker"}
\* selectbox "Which water?"
WaterOptions == {"left water", "right water", "long water"}

\* what the second selectbox offers after the first one's choice; a choice
\* without a second selectbox stands for itself
SideOptions(choice) ==
    IF choice = "rough" THEN RoughOptions
    ELSE IF choice = "bunker" THEN BunkerOptions
    ELSE IF choice = "water" THEN WaterOptions
    ELSE {choice}

\* the stepwise selection without the bunker branch
ResolveEndLie_PlainBunker(choice, side) ==
    IF choice = "rough" THEN side
    ELSE IF choice = "water" THEN side
    ELSE choice

\* the stepwise selection: end_lie after the second selectbox
ResolveEndLie(choice, side) ==
    IF choice = "rough" THEN side
    ELSE IF choice = "bunker" THEN side
    ELSE IF choice = "water" THEN side
    ELSE choice

\* start_lie that ignores where the previous shot ended
StartLie_AlwaysTee(shot_num, hole) == "tee"

\* start_lie = "tee" if shot_num==1 else current_hole_obj.shots[-1].end_lie
StartLie(shot_num, hole) ==
    IF shot_num = 1 THEN "tee" ELSE hole.shots[Len(hole.shots)].end_lie

\* number of shots the session holds, stored or in progress
RECURSIVE SumStrokes(_)
SumStrokes(holes) ==
    IF holes = <<>> THEN 0 ELSE Len(Head(holes).shots) + SumStrokes(Tail(holes))

SessionStrokes ==
    (IF round = None THEN 0 ELSE SumStrokes(round.holes))
    + (IF current_hole_obj = None THEN 0 ELSE Len(current_hole_obj.shots))

----------------------------------------------------------------------------
(* The entry script *)

Init ==
    /\ player = ""
    /\ course = ""
    /\ round = None
    /\ current_hole = 1
    /\ current_shot = 1
    /\ current_hole_obj = None
    /\ shot = None
    /\ queried_hole = None
    /\ answer = None

\* the round-setup branch building the Round as soon as either name is given
RoundSetup_EitherName(p, c, hp, cp) ==
    /\ round = None
    /\ player' = p
    /\ course' = c
    /\ IF hp * 4 \notin CourseParRange
       THEN round' = round
       ELSE IF p # "" \/ c # ""
            THEN round' = Round(p, c, hp, cp)
            ELSE round' = round
    /\ UNCHANGED <<current_hole, current_shot, current_hole_obj, shot, queried_hole, answer>>

\* A run of the round-setup branch with the form holding p, c, hp, cp.  The
\* "Course Par" widget defaults to hp*4 and raises when that default is below
\* its min_value, which ends the run before the Round is built.
RoundSetup(p, c, hp, cp) ==
    /\ round = None
    /\ player' = p
    /\ course' = c
    /\ IF hp * 4 \notin CourseParRange
       THEN round' = round
       ELSE IF p # "" /\ c # ""
            THEN round' = Round(p, c, hp, cp)
            ELSE round' = round
    /\ UNCHANGED <<current_hole, current_shot, current_hole_obj, shot, queried_hole, answer>>

\* Start Hole numbering the Hole by the count of stored holes (zero-based)
StartHole_ZeroBased(par, yardage) ==
    /\ round # None
    /\ current_hole_obj = None
    /\ current_hole <= MaxHoles
    /\ LET hole_num == Len(round.holes) IN
       /\ current_hole_obj' = Hole(hole_num, par, yardage)
       /\ current_shot' = 1
    /\ UNCHANGED <<player, course, round, current_hole, shot, queried_hole, answer>>

\* Start Hole appending the new Hole to the Round at once
StartHole_StoresHole(par, yardage) ==
    /\ round # None
    /\ current_hole_obj = None
    /\ current_hole <= MaxHoles
    /\ LET hole_num == current_hole IN
       /\ current_hole_obj' = Hole(hole_num, par, yardage)
       /\ round' = [round EXCEPT !.holes = Append(@, Hole(hole_num, par, yardage))]
       /\ current_shot' = 1
    /\ UNCHANGED <<player, course, current_hole, shot, queried_hole, answer>>

\* A run of the hole-setup branch with "Start Hole" pressed
StartHole(par, yardage) ==
    /\ round # None
    /\ current_hole_obj = None
    /\ current_hole <= MaxHoles
    /\ LET hole_num == current_hole IN
       /\ current_hole_obj' = Hole(hole_num, par, yardage)
       /\ current_shot' = 1
    /\ UNCHANGED <<player, course, round, current_hole, shot, queried_hole, answer>>

\* Add Shot closing the Hole when the ball reaches the green
AddShot_EndsOnGreen(choice, side, dist, dth) ==
    /\ round # None
    /\ current_hole_obj # None
    /\ Len(current_hole_obj.shots) < MaxShots
    /\ SessionStrokes < MaxStrokes
    /\ LET shot_num == current_shot
           start_lie == StartLie(shot_num, current_hole_obj)
           end_lie == ResolveEndLie(choice, side)
           distance_to_hole == IF choice = "green" THEN dth ELSE Absent
           distance == IF start_lie # "green" THEN dist ELSE Absent
           hole == [current_hole_obj EXCEPT !.shots =
                       Append(@, Shot(shot_num, distance, start_lie, end_lie,
                                      distance_to_hole))]
       IN  IF end_lie = "green"
           THEN /\ round' = [round EXCEPT !.holes = Append(@, hole)]
                /\ current_hole' = current_hole + 1
                /\ current_shot' = 1
                /\ current_hole_obj' = None
           ELSE /\ current_hole_obj' = hole
                /\ current_shot' = current_shot + 1
                /\ UNCHANGED <<round, current_hole>>
    /\ UNCHANGED <<player, course, shot, queried_hole, answer>>

\* Add Shot without current_shot += 1
AddShot_KeepsShotNumber(choice, side, dist, dth) ==
    /\ round # None
    /\ current_hole_obj # None
    /\ Len(current_hole_obj.shots) < MaxShots
    /\ SessionStrokes < MaxStrokes
    /\ LET shot_num == current_shot
           start_lie == StartLie(shot_num, current_hole_obj)
           end_lie == ResolveEndLie(choice, side)
           distance_to_hole == IF choice = "green" THEN dth ELSE Absent
           distance == IF start_lie # "green" THEN dist ELSE Absent
           hole == [current_hole_obj EXCEPT !.shots =
                       Append(@, Shot(shot_num, distance, start_lie, end_lie,
                                      distance_to_hole))]
       IN  IF end_lie = "hole"
           THEN /\ round' = [round EXCEPT !.holes = Append(@, hole)]
                /\ current_hole' = current_hole + 1
                /\ current_shot' = 1
                /\ current_hole_obj' = None
           ELSE /\ current_hole_obj' = hole
                /\ current_shot' = current_shot
                /\ UNCHANGED <<round, current_hole>>
    /\ UNCHANGED <<player, course, shot, queried_hole, answer>>

\* Add Shot without current_hole += 1
AddShot_KeepsHoleNumber(choice, side, dist, dth) ==
    /\ round # None
    /\ current_hole_obj # None
    /\ Len(current_hole_obj.shots) < MaxShots
    /\ SessionStrokes < MaxStrokes
    /\ LET shot_num == current_shot
           start_lie == StartLie(shot_num, current_hole_obj)
           end_lie == ResolveEndLie(choice, side)
           distance_to_hole == IF choice = "green" THEN dth ELSE Absent
           distance == IF start_lie # "green" THEN dist ELSE Absent
           hole == [current_hole_obj EXCEPT !.shots =
                       Append(@, Shot(shot_num, distance, start_lie, end_lie,
                                      distance_to_hole))]
       IN  IF end_lie = "hole"
           THEN /\ round' = [round EXCEPT !.holes = Append(@, hole)]
                /\ current_hole' = current_hole
                /\ current_shot' = 1
                /\ current_hole_obj' = None
           ELSE /\ current_hole_obj' = hole
                /\ current_shot' = current_shot + 1
                /\ UNCHANGED <<round, current_hole>>
    /\ UNCHANGED <<player, course, shot, queried_hole, answer>>

\* Add Shot asking for the distance unless the ball ended on the green
AddShot_DistanceByEndLie(choice, side, dist, dth) ==
    /\ round # None
    /\ current_hole_obj # None
    /\ Len(current_hole_obj.shots) < MaxShots
    /\ SessionStrokes < MaxStrokes
    /\ LET shot_num == current_shot
           start_lie == StartLie(shot_num, current_hole_obj)
           end_lie == ResolveEndLie(choice, side)
           distance_to_hole == IF choice = "green" THEN dth ELSE Absent
           distance == IF end_lie # "green" THEN dist ELSE Absent
           hole == [current_hole_obj EXCEPT !.shots =
                       Append(@, Shot(shot_num, distance, start_lie, end_lie,
                                      distance_to_hole))]
       IN  IF end_lie = "hole"
           THEN /\ round' = [round EXCEPT !.holes = Append(@, hole)]
                /\ current_hole' = current_hole + 1
                /\ current_shot' = 1
                /\ current_hole_obj' = None
           ELSE /\ current_hole_obj' = hole
                /\ current_shot' = current_shot + 1
                /\ UNCHANGED <<round, current_hole>>
    /\ UNCHANGED <<player, course, shot, queried_hole, answer>>

\* Add Shot without current_shot = 1 when the Hole is complete
AddShot_KeepsShotAfterHole(choice, side, dist, dth) ==
    /\ round # None
    /\ current_hole_obj # None
    /\ Len(current_hole_obj.shots) < MaxShots
    /\ SessionStrokes < MaxStrokes
    /\ LET shot_num == current_shot
           start_lie == StartLie(shot_num, current_hole_obj)
           end_lie == ResolveEndLie(choice, side)
           distance_to_hole == IF choice = "green" THEN dth ELSE Absent
           distance == IF start_lie # "green" THEN dist ELSE Absent
           hole == [current_hole_obj EXCEPT !.shots =
                       Append(@, Shot(shot_num, distance, start_lie, end_lie,
                                      distance_to_hole))]
       IN  IF end_lie = "hole"
           THEN /\ round' = [round EXCEPT !.holes = Append(@, hole)]
                /\ current_hole' = current_hole + 1
                /\ current_shot' = current_shot
                /\ current_hole_obj' = None
           ELSE /\ current_hole_obj' = hole
                /\ current_shot' = current_shot + 1
                /\ UNCHANGED <<round, current_hole>>
    /\ UNCHANGED <<player, course, shot, queried_hole, answer>>

\* Add Shot without current_hole_obj = None when the Hole is complete: the object
\* stored in the Round stays the one in progress and takes the next shots too
AddShot_KeepsHoleObject(choice, side, dist, dth) ==
    /\ round # None
    /\ current_hole_obj # None
    /\ Len(current_hole_obj.shots) < MaxShots
    /\ SessionStrokes < MaxStrokes
    /\ LET shot_num == current_shot
           start_lie == StartLie(shot_num, current_hole_obj)
           end_lie == ResolveEndLie(choice, side)
           distance_to_hole == IF choice = "green" THEN dth ELSE Absent
           distance == IF start_lie # "green" THEN dist ELSE Absent
           hole == [current_hole_obj EXCEPT !.shots =
                       Append(@, Shot(shot_num, distance, start_lie, end_lie,
                                      distance_to_hole))]
           aliased == /\ Len(round.holes) > 0
                      /\ round.holes[Len(round.holes)].hole_number
                            = current_hole_obj.hole_number
           holes == IF aliased
                    THEN [round.holes EXCEPT ![Len(round.holes)] = hole]
                    ELSE round.holes
       IN  IF end_lie = "hole"
           THEN /\ round' = [round EXCEPT !.holes = Append(holes, hole)]
                /\ current_hole' = current_hole + 1
                /\ current_shot' = 1
                /\ current_hole_obj' = hole
           ELSE /\ current_hole_obj' = hole
                /\ current_shot' = current_shot + 1
                /\ round' = [round EXCEPT !.holes = holes]
                /\ UNCHANGED current_hole
    /\ UNCHANGED <<player, course, shot, queried_hole, answer>>

\* A run of the shot-entry branch with "Add Shot" pressed
AddShot(choice, side, dist, dth) ==
    /\ round # None
    /\ current_hole_obj # None
    /\ Len(current_hole_obj.shots) < MaxShots
    /\ SessionStrokes < MaxStrokes
    /\ LET shot_num == current_shot
           start_lie == StartLie(shot_num, current_hole_obj)
           end_lie == ResolveEndLie(choice, side)
           distance_to_hole == IF choice = "green" THEN dth ELSE Absent
           distance == IF start_lie # "green" THEN dist ELSE Absent
           hole == [current_hole_obj EXCEPT !.shots =
                       Append(@, Shot(shot_num, distance, start_lie, end_lie,
                                      distance_to_hole))]
       IN  IF end_lie = "hole"
           THEN /\ round' = [round EXCEPT !.holes = Append(@, hole)]
                /\ current_hole' = current_hole + 1
                /\ current_shot' = 1
                /\ current_hole_obj' = None
           ELSE /\ current_hole_obj' = hole
                /\ current_shot' = current_shot + 1
                /\ UNCHANGED <<round, current_hole>>
    /\ UNCHANGED <<player, course, shot, queried_hole, answer>>

Next ==
    \/ \E p \in Names, c \in Names, hp \in HolesPlayedChoices \cap HolesPlayedRange,
          cp \in CourseParChoices \cap CourseParRange : RoundSetup(p, c, hp, cp)
    \/ \E par \in ParRange, yardage \in Yardages \cap YardageRange :
          StartHole(par, yardage)
    \/ \E choice \in LieOptions, dist \in Distances, dth \in DistancesToHole :
          \E side \in SideOptions(choice) : AddShot(choice, side, dist, dth)

Spec == Init /\ [][Next]_vars

----------------------------------------------------------------------------
(* Classification queries on one Shot *)

\* every end_lie the entry script can pass to Shot(...)
StoredEndLies ==
    {"fairway", "green", "hole"} \cup RoughOptions \cup BunkerOptions \cup WaterOptions

\* the Shots the queries are applied to
ShotInputs ==
    { Shot(n, d, sl, el, dth) :
        n \in 1..MaxShots, d \in {Absent} \cup ShotDistances,
        sl \in {"tee"} \cup (StoredEndLies \ {"hole"}), el \in StoredEndLies,
        dth \in {Absent} \cup DistancesToHole }

InitShot ==
    /\ player = ""
    /\ course = ""
    /\ round = None
    /\ current_hole = 1
    /\ current_shot = 1
    /\ current_hole_obj = None
    /\ shot \in ShotInputs
    /\ queried_hole = None
    /\ answer = None

CallIsPutt ==
    /\ answer' = [fn |-> "is_putt", value |-> is_putt(shot)]
    /\ UNCHANGED <<session, shot, queried_hole>>

CallCategory ==
    /\ answer' = [fn |-> "category", value |-> category(shot)]
    /\ UNCHANGED <<session, shot, queried_hole>>

CallDirection ==
    /\ answer' = [fn |-> "direction", value |-> direction(shot)]
    /\ UNCHANGED <<session, shot, queried_hole>>

NextShot ==
    \/ CallIsPutt
    \/ CallCategory
    \/ CallDirection

SpecShot == InitShot /\ [][NextShot]_vars

----------------------------------------------------------------------------
(* Queries on one Hole *)

\* sequences over S of length 0..n
RECURSIVE SeqsUpTo(_, _)
SeqsUpTo(S, n) ==
    IF n = 0 THEN {<<>>}
    ELSE LET shorter == SeqsUpTo(S, n - 1) IN
         shorter \cup { Append(q, x) : q \in shorter, x \in S }

\* the shot list recorded for a sequence of end lies: numbered from 1, each shot
\* starting where the one before ended, with the distances the script records
ShotsEnding(els) ==
    [ i \in 1..Len(els) |->
        LET start_lie == IF i = 1 THEN "tee" ELSE els[i - 1] IN
        Shot(i,
             IF start_lie # "green" THEN 150 ELSE Absent,
             start_lie, els[i],
             IF els[i] = "green" THEN 20 ELSE Absent) ]

\* the Holes the queries are applied to
HoleInputs ==
    { [hole_number |-> 1, par |-> par, yardage |-> 400, shots |-> ShotsEnding(els)] :
        par \in ParRange, els \in SeqsUpTo(StoredEndLies, MaxShots) }

InitHole ==
    /\ player = ""
    /\ course = ""
    /\ round = None
    /\ current_hole = 1
    /\ current_shot = 1
    /\ current_hole_obj = None
    /\ shot = None
    /\ queried_hole \in HoleInputs
    /\ answer = None

CallStrokes ==
    /\ answer' = [fn |-> "strokes", value |-> strokes(queried_hole)]
    /\ UNCHANGED <<session, shot, queried_hole>>

CallPutts ==
    /\ answer' = [fn |-> "putts", value |-> putts(queried_hole)]
    /\ UNCHANGED <<session, shot, queried_hole>>

CallFairwayResult ==
    /\ answer' = [fn |-> "fairway_result", value |-> fairway_result(queried_hole)]
    /\ UNCHANGED <<session, shot, queried_hole>>

CallGir ==
    /\ answer' = [fn |-> "gir", value |-> gir(queried_hole)]
    /\ UNCHANGED <<session, shot, queried_hole>>

NextHole ==
    \/ CallStrokes
    \/ CallPutts
    \/ CallFairwayResult
    \/ CallGir

SpecHole == InitHole /\ [][NextHole]_vars

----------------------------------------------------------------------------
(* Queries on the Round the entry script has built *)

\* total_score() emptying self.holes as it sums
CallTotalScore_PopsHoles ==
    /\ round # None
    /\ answer' = [fn |-> "total_score", value |-> total_score(round)]
    /\ round' = [round EXCEPT !.holes = <<>>]
    /\ UNCHANGED <<player, course, current_hole, current_shot, current_hole_obj,
                   shot, queried_hole>>

CallTotalScore ==
    /\ round # None
    /\ answer' = [fn |-> "total_score", value |-> total_score(round)]
    /\ UNCHANGED <<session, shot, queried_hole>>

CallScoreVsPar ==
    /\ round # None
    /\ answer' = [fn |-> "score_vs_par", value |-> score_vs_par(round)]
    /\ UNCHANGED <<session, shot, queried_hole>>

CallTotalPutts ==
    /\ round # None
    /\ answer' = [fn |-> "total_putts", value |-> total_putts(round)]
    /\ UNCHANGED <<session, shot, queried_hole>>

CallFairwayStats ==
    /\ round # None
    /\ answer' = [fn |-> "fairway_stats", value |-> fairway_stats(round)]
    /\ UNCHANGED <<session, shot, queried_hole>>

CallGirStats ==
    /\ round # None
    /\ answer' = [fn |-> "gir_stats", value |-> gir_stats(round)]
    /\ UNCHANGED <<session, shot, queried_hole>>

CallDirectionalBias ==
    /\ round # None
    /\ answer' = [fn |-> "directional_bias", value |-> directional_bias(round)]
    /\ UNCHANGED <<session, shot, queried_hole>>

CallStrokesByCategory ==
    /\ round # None
    /\ answer' = [fn |-> "strokes_by_category", value |-> strokes_by_category(round)]
    /\ UNCHANGED <<session, shot, queried_hole>>

CallToDataframe ==
    /\ round # None
    /\ answer' = [fn |-> "to_dataframe", value |-> to_dataframe(round)]
    /\ UNCHANGED <<session, shot, queried_hole>>

\* the entry script runs until the first query; from then on the Round is only
\* queried
NextStats ==
    \/ /\ answer = None
       /\ SessionStrokes < MaxStatStrokes
       /\ Next
    \/ CallTotalScore
    \/ CallScoreVsPar
    \/ CallTotalPutts
    \/ CallFairwayStats
    \/ CallGirStats
    \/ CallDirectionalBias
    \/ CallStrokesByCategory
    \/ CallToDataframe

SpecStats == Init /\ [][NextStats]_vars

----------------------------------------------------------------------------
(* Properties of the entry script *)

\* the holes stored in the Round, in order
StoredHoles == IF round = None THEN <<>> ELSE round.holes

\* the shot lists of every Hole that exists: the stored ones and the one in progress
AllShotLists ==
    { StoredHoles[k].shots : k \in 1..Len(StoredHoles) }
    \cup (IF current_hole_obj = None THEN {} ELSE {current_hole_obj.shots})

\* C1: the Round never stores more than holes_played holes, and once it stores
\* holes_played holes no further hole is started or appended.
C1_EntryStopsAtHolesPlayed ==
    round # None =>
        /\ Len(round.holes) <= round.holes_played
        /\ (Len(round.holes) = round.holes_played => current_hole_obj = None)

\* C2: every stored Hole has exactly one shot with end_lie "hole", its last one;
\* the Hole in progress has none.
C2_TerminalShotIsLast ==
    /\ \A k \in 1..Len(StoredHoles) :
          LET sh == StoredHoles[k].shots IN
          /\ Len(sh) >= 1
          /\ sh[Len(sh)].end_lie = "hole"
          /\ \A i \in 1..(Len(sh) - 1) : sh[i].end_lie # "hole"
    /\ current_hole_obj # None =>
          \A i \in 1..Len(current_hole_obj.shots) :
              current_hole_obj.shots[i].end_lie # "hole"

C2_Witness ==
    /\ Len(StoredHoles) >= 1
    /\ Len(StoredHoles[1].shots) >= 2
    /\ current_hole_obj # None
    /\ Len(current_hole_obj.shots) >= 1

\* C3: round.holes changes only by appending the Hole in progress, in the step
\* that records its terminal shot; every other step leaves round.holes as it was.
C3_HolesGrowOnlyByCompletedHole ==
    [][ StoredHoles' # StoredHoles =>
          /\ current_hole_obj # None
          /\ current_hole_obj' = None
          /\ Len(StoredHoles') = Len(StoredHoles) + 1
          /\ SubSeq(StoredHoles', 1, Len(StoredHoles)) = StoredHoles
          /\ LET h == StoredHoles'[Len(StoredHoles')] IN
             /\ h.hole_number = current_hole_obj.hole_number
             /\ Len(h.shots) = Len(current_hole_obj.shots) + 1
             /\ SubSeq(h.shots, 1, Len(current_hole_obj.shots)) = current_hole_obj.shots
             /\ h.shots[Len(h.shots)].end_lie = "hole" ]_vars

C3_Witness ==
    /\ Len(StoredHoles) >= 1
    /\ current_hole_obj # None
    /\ Len(current_hole_obj.shots) >= 1

\* the Hole a step of Add Shot leaves behind: the one in progress, or the one
\* just appended to the Round
HoleAfterShot == 
    IF current_hole_obj' # None THEN current_hole_obj'
    ELSE StoredHoles'[Len(StoredHoles')]

\* C4: the i-th shot of every Hole, stored or in progress, has shot_number i, and
\* every Add Shot lengthens the Hole in progress by exactly one shot.
C4_ShotNumbersContiguous ==
    /\ [](\A sh \in AllShotLists : \A i \in 1..Len(sh) : sh[i].shot_number = i)
    /\ [][ (current_hole_obj # None /\ session' # session) =>
             /\ Len(HoleAfterShot.shots) = Len(current_hole_obj.shots) + 1
             /\ SubSeq(HoleAfterShot.shots, 1, Len(current_hole_obj.shots))
                   = current_hole_obj.shots
             /\ HoleAfterShot.shots[Len(HoleAfterShot.shots)].shot_number
                   = Len(HoleAfterShot.shots) ]_vars

C4_Witness ==
    \E k \in 1..Len(StoredHoles) :
        /\ Len(StoredHoles[k].shots) = 3
        /\ StoredHoles[k].shots[3].shot_number = 3
        /\ StoredHoles[k].shots[3].end_lie = "hole"

\* C5: the k-th Hole stored in the Round has hole_number k.
C5_HoleNumbersSequential ==
    \A k \in 1..Len(StoredHoles) : StoredHoles[k].hole_number = k

C5_Witness ==
    /\ Len(StoredHoles) >= 3
    /\ \E k \in 1..Len(StoredHoles) : Len(StoredHoles[k].shots) >= 2

\* C6: in every Hole, stored or in progress, a shot numbered 1 starts on the
\* tee and any other shot starts where the shot before it ended.
C6_StartLieChained ==
    \A sh \in AllShotLists : \A i \in 1..Len(sh) :
        IF sh[i].shot_number = 1
        THEN sh[i].start_lie = "tee"
        ELSE i > 1 /\ sh[i].start_lie = sh[i - 1].end_lie

C6_Witness ==
    \E sh \in AllShotLists :
        /\ Len(sh) = 3
        /\ sh[2].start_lie = "fairway bunker"
        /\ sh[3].start_lie = "green"

\* C7: a Round exists only with both names non-empty, holes_played in 1..18 and
\* course_par in 9..72; while a name is empty there is no Round, no Hole in
\* progress, and the counters are as initialised.
C7_RoundNeedsBothNames ==
    /\ round # None =>
          /\ round.player_name # ""
          /\ round.course_name # ""
          /\ round.holes_played \in 1..18
          /\ round.course_par \in 9..72
    /\ (player = "" \/ course = "") =>
          /\ round = None
          /\ current_hole_obj = None
          /\ current_hole = 1
          /\ current_shot = 1

C7_Witness ==
    /\ round # None
    /\ round.player_name = "Ann"
    /\ round.course_name = "Ann"
    /\ round.holes = <<>>
    /\ current_hole_obj = None

\* C8: a Hole comes into being only in a step taken with a Round and no Hole in
\* progress; it is then empty, numbered one past the stored holes, with par in
\* 3..5 and yardage in 50..800, and the step changes nothing else.  A Hole in
\* progress is never replaced by another.
C8_HoleOnlyByStartHole ==
    [][ /\ (current_hole_obj = None /\ current_hole_obj' # None) =>
              /\ round # None
              /\ current_hole_obj'.hole_number = Len(round.holes) + 1
              /\ current_hole_obj'.par \in 3..5
              /\ current_hole_obj'.yardage \in 50..800
              /\ current_hole_obj'.shots = <<>>
              /\ UNCHANGED <<player, course, round, current_hole>>
        /\ (current_hole_obj # None /\ current_hole_obj' # None) =>
              /\ current_hole_obj'.hole_number = current_hole_obj.hole_number
              /\ current_hole_obj'.par = current_hole_obj.par
              /\ current_hole_obj'.yardage = current_hole_obj.yardage ]_vars

C8_Witness ==
    /\ current_hole_obj # None
    /\ current_hole_obj.hole_number = 2
    /\ current_hole_obj.par = 5
    /\ current_hole_obj.shots = <<>>

\* C16: a Hole stored in the Round keeps its place, number, par, yardage and
\* shots through every later step.
C16_StoredHolesNeverChange ==
    [][ \A k \in 1..Len(StoredHoles) :
          /\ k <= Len(StoredHoles')
          /\ StoredHoles'[k] = StoredHoles[k] ]_vars

C16_Witness ==
    /\ Len(StoredHoles) = 1
    /\ Len(StoredHoles[1].shots) = 1
    /\ current_hole_obj # None
    /\ current_hole_obj.hole_number = 2
    /\ Len(current_hole_obj.shots) = 2

\* C17: in every Hole, stored or in progress, a shot has no distance exactly when
\* it starts on the green (a distance that is present is >= 0), and has a
\* distance_to_hole exactly when it ends on the green.
C17_DistancesFollowLies ==
    \A sh \in AllShotLists : \A i \in 1..Len(sh) :
        /\ (sh[i].distance = Absent) <=> (sh[i].start_lie = "green")
        /\ sh[i].distance # Absent => sh[i].distance >= 0
        /\ (sh[i].distance_to_hole # Absent) <=> (sh[i].end_lie = "green")

C17_Witness ==
    \E sh \in AllShotLists :
        /\ Len(sh) = 3
        /\ sh[1].end_lie = "green" /\ sh[1].distance = 150 /\ sh[1].distance_to_hole = 20
        /\ sh[2].end_lie = "green" /\ sh[2].distance = Absent /\ sh[2].distance_to_hole = 20
        /\ sh[3].end_lie = "hole" /\ sh[3].distance = Absent
        /\ sh[3].distance_to_hole = Absent

\* C18: no shot of any Hole, stored or in progress, ends on plain "rough",
\* "bunker" or "water": every end_lie is fairway, green, hole or a compound label.
C18_NoPlainHazardLabel ==
    \A sh \in AllShotLists : \A i \in 1..Len(sh) :
        /\ sh[i].end_lie \notin {"rough", "bunker", "water"}
        /\ sh[i].end_lie \in
              {"fairway", "green", "hole",
               "left rough", "right rough", "short rough", "long rough",
               "left bunker", "right bunker", "fairway bunker",
               "left water", "right water", "long water"}

C18_Witness ==
    \E sh \in AllShotLists :
        /\ Len(sh) = 3
        /\ sh[1].end_lie = "long water"
        /\ sh[2].end_lie = "fairway bunker"
        /\ sh[3].end_lie = "short rough"

\* C19: once the Round exists, current_hole is one past the stored holes; a Hole
\* in progress bears the number current_hole and current_shot is one past its
\* shots; with no Hole in progress current_shot is 1.
C19_CountersAgreeWithData ==
    round # None =>
        /\ current_hole = Len(round.holes) + 1
        /\ current_hole_obj # None =>
              /\ current_hole_obj.hole_number = current_hole
              /\ current_shot = Len(current_hole_obj.shots) + 1
        /\ current_hole_obj = None => current_shot = 1

C19_Witness ==
    /\ round # None
    /\ Len(round.holes) = 1
    /\ Len(round.holes[1].shots) = 2
    /\ current_hole = 2
    /\ current_hole_obj = None
    /\ current_shot = 1


----------------------------------------------------------------------------
(* Properties of the classification queries *)

\* C9: category() answers "putting" for a shot starting on the green, else "tee"
\* for shot 1, else "approach" for a distance present and above 100, else
\* "short_game".
C9_CategoryPrecedence ==
    (answer # None /\ answer.fn = "category") =>
        /\ answer.value \in {"putting", "tee", "approach", "short_game"}
        /\ answer.value =
              IF shot.start_lie = "green" THEN "putting"
              ELSE IF shot.shot_number = 1 THEN "tee"
              ELSE IF shot.distance # Absent /\ shot.distance > 100 THEN "approach"
              ELSE "short_game"
        /\ (shot.start_lie # "green" /\ shot.shot_number # 1
               /\ shot.distance \in {Absent, 0, 100})
              => answer.value = "short_game"

C9_Witness ==
    /\ answer # None
    /\ answer.fn = "category"
    /\ shot.shot_number = 2
    /\ shot.start_lie = "fairway"
    /\ shot.distance = 100
    /\ answer.value = "short_game"

\* the positions in DirectionKeywords of the keywords occurring in end_lie e
KeywordHits(e) ==
    { i \in 1..Len(DirectionKeywords) : StrIn(DirectionKeywords[i], e) }

\* C10: direction() answers the first of left, right, short, long occurring in
\* end_lie; else "center" for exactly fairway or green; else "hole" for exactly
\* hole; else "unknown", as for "fairway bunker".
C10_DirectionPrecedence ==
    (answer # None /\ answer.fn = "direction") =>
        /\ answer.value \in {"left", "right", "short", "long", "center", "hole", "unknown"}
        /\ answer.value =
              IF KeywordHits(shot.end_lie) # {}
              THEN DirectionKeywords[CHOOSE i \in KeywordHits(shot.end_lie) :
                                        \A j \in KeywordHits(shot.end_lie) : i <= j]
              ELSE IF shot.end_lie = "fairway" \/ shot.end_lie = "green" THEN "center"
              ELSE IF shot.end_lie = "hole" THEN "hole"
              ELSE "unknown"
        /\ shot.end_lie = "fairway bunker" => answer.value = "unknown"
        /\ shot.end_lie = "long water" => answer.value = "long"
        /\ shot.end_lie = "short rough" => answer.value = "short"

C10_Witness ==
    /\ answer # None
    /\ answer.fn = "direction"
    /\ shot.end_lie = "fairway bunker"
    /\ answer.value = "unknown"

----------------------------------------------------------------------------
(* Properties of the Hole queries *)

\* the positions (1-based) of the shots of Hole h that end on the green
GreenPositions(h) == { i \in 1..Len(h.shots) : h.shots[i].end_lie = "green" }

\* C11: gir() is TRUE exactly when some shot ends on the green and the first such
\* shot is at position <= par - 2; it is FALSE, never null, when no shot ends on
\* the green, also for a Hole holed out from off the green.
C11_GirFirstGreenInRegulation ==
    (answer # None /\ answer.fn = "gir") =>
        /\ answer.value \in BOOLEAN
        /\ answer.value =
              ( /\ GreenPositions(queried_hole) # {}
                /\ \E i \in GreenPositions(queried_hole) :
                      /\ \A j \in GreenPositions(queried_hole) : i <= j
                      /\ i <= queried_hole.par - 2 )
        /\ GreenPositions(queried_hole) = {} => answer.value = FALSE

C11_Witness ==
    /\ answer # None
    /\ answer.fn = "gir"
    /\ queried_hole.par = 4
    /\ Len(queried_hole.shots) = 3
    /\ queried_hole.shots[1].end_lie = "fairway"
    /\ queried_hole.shots[2].end_lie = "green"
    /\ queried_hole.shots[3].end_lie = "hole"
    /\ answer.value = TRUE

\* C12: fairway_result() is null for a Hole with par < 4 and for a Hole without
\* shots; otherwise it is the direction of the first shot, whatever follows it.
C12_FairwayResultFirstShotOnly ==
    (answer # None /\ answer.fn = "fairway_result") =>
        /\ queried_hole.par < 4 => answer.value = NoResult
        /\ Len(queried_hole.shots) = 0 => answer.value = NoResult
        /\ (queried_hole.par >= 4 /\ Len(queried_hole.shots) >= 1) =>
              /\ answer.value # NoResult
              /\ answer.value = direction(queried_hole.shots[1])

C12_Witness ==
    /\ answer # None
    /\ answer.fn = "fairway_result"
    /\ queried_hole.par = 3
    /\ Len(queried_hole.shots) = 2
    /\ queried_hole.shots[1].end_lie = "left rough"
    /\ answer.value = NoResult

----------------------------------------------------------------------------
(* Properties of the Round queries *)

\* the places <<k, i>> of the shots stored in the Round: shot i of hole k
StoredShotPlaces ==
    { <<k, i>> \in (1..Len(StoredHoles)) \X (1..MaxShots + 1) :
        i <= Len(StoredHoles[k].shots) }

ShotAt(pl) == StoredHoles[pl[1]].shots[pl[2]]

\* the count a frequency table reports for key d: 0 when d is not a key
CountIn(table, d) == IF d \in DOMAIN table THEN table[d] ELSE 0

\* C13: directional_bias() has no key "center" and no key "hole", and reports for
\* every other direction the number of stored shots with that direction.
C13_DirectionalBiasExcludesCenterAndHole ==
    (answer # None /\ answer.fn = "directional_bias") =>
        /\ "center" \notin DOMAIN answer.value
        /\ "hole" \notin DOMAIN answer.value
        /\ DOMAIN answer.value \subseteq {"left", "right", "short", "long", "unknown"}
        /\ \A d \in {"left", "right", "short", "long", "unknown"} :
              CountIn(answer.value, d)
                 = Cardinality({ pl \in StoredShotPlaces : direction(ShotAt(pl)) = d })

C13_Witness ==
    /\ answer # None
    /\ answer.fn = "directional_bias"
    /\ Len(StoredHoles) = 1
    /\ Len(StoredHoles[1].shots) = 3
    /\ StoredHoles[1].shots[2].end_lie = "green"
    /\ DOMAIN answer.value = {"left"}
    /\ answer.value["left"] = 1

\* what query fn yields on the Round as it stands
AggregateValue(fn) ==
    CASE fn = "total_score" -> total_score(round)
      [] fn = "score_vs_par" -> score_vs_par(round)
      [] fn = "total_putts" -> total_putts(round)
      [] fn = "fairway_stats" -> fairway_stats(round)
      [] fn = "gir_stats" -> gir_stats(round)
      [] fn = "directional_bias" -> directional_bias(round)
      [] fn = "strokes_by_category" -> strokes_by_category(round)
      [] fn = "to_dataframe" -> to_dataframe(round)

\* C14: a query changes nothing of the Round and the entry state, and the answer
\* last given is what the same query yields again, whatever queries came between.
C14_QueriesLeaveStateUnchanged ==
    /\ [][ answer' # answer =>
             UNCHANGED <<player, course, round, current_hole, current_shot,
                         current_hole_obj>> ]_vars
    /\ [](answer # None => answer.value = AggregateValue(answer.fn))

C14_Witness ==
    /\ answer # None
    /\ answer.fn = "to_dataframe"
    /\ Len(answer.value) = 2
    /\ Len(StoredHoles) = 2
    /\ current_hole_obj # None

\* C15: total_score() is the number of stored shots, total_putts() the number of
\* stored shots starting on the green, score_vs_par() the former less course_par;
\* without holes the sums are 0 and gir_stats() is (0, 0).
C15_TotalsAreSums ==
    answer # None =>
        /\ answer.fn = "total_score" =>
              /\ answer.value = Cardinality(StoredShotPlaces)
              /\ StoredHoles = <<>> => answer.value = 0
        /\ answer.fn = "total_putts" =>
              /\ answer.value = Cardinality({ pl \in StoredShotPlaces :
                                                ShotAt(pl).start_lie = "green" })
              /\ StoredHoles = <<>> => answer.value = 0
        /\ answer.fn = "score_vs_par" =>
              answer.value = Cardinality(StoredShotPlaces) - round.course_par
        /\ (answer.fn = "gir_stats" /\ StoredHoles = <<>>) => answer.value = <<0, 0>>

C15_Witness ==
    /\ answer # None
    /\ answer.fn = "score_vs_par"
    /\ Len(StoredHoles) = 2
    /\ answer.value = 3 - 72

\* C20: every stored Hole has as many putts as shots ending on the green, its
\* first shot is no putt, and gir() implies at least one putt; the "tee" bucket of
\* strokes_by_category() is the number of stored holes, its "putting" bucket is
\* total_putts(), and its four buckets add up to total_score().
C20_PuttsFollowGreens ==
    /\ \A k \in 1..Len(StoredHoles) :
          /\ putts(StoredHoles[k]) = Cardinality(GreenPositions(StoredHoles[k]))
          /\ ~ is_putt(StoredHoles[k].shots[1])
          /\ gir(StoredHoles[k]) => putts(StoredHoles[k]) >= 1
    /\ (answer # None /\ answer.fn = "strokes_by_category") =>
          /\ DOMAIN answer.value = {"tee", "approach", "short_game", "putting"}
          /\ answer.value["tee"] = Len(StoredHoles)
          /\ answer.value["putting"] = total_putts(round)
          /\ answer.value["tee"] + answer.value["approach"]
                + answer.value["short_game"] + answer.value["putting"]
                = total_score(round)

C20_Witness ==
    /\ answer # None
    /\ answer.fn = "strokes_by_category"
    /\ Len(StoredHoles) = 2
    /\ gir(StoredHoles[1])
    /\ putts(StoredHoles[1]) = 1
    /\ answer.value["tee"] = 2
    /\ answer.value["putting"] = 1

====
